---- MODULE Spec2Model ----
(***************************************************************************)
(* Model of the audio ingestion server (src/server.js) and of the ESP32    *)
(* playback controller (src/ESP32/audio_player.ino).                       *)
(*                                                                         *)
(* The device part is the state of the sketch's globals (isPlaying,        *)
(* currentURL, the SD_PIN level, the streams the Audio object has open)    *)
(* with one action per handler; the /api/play body handler is walked       *)
(* statement by statement (dpc is its position) so that the states         *)
(* between its writes can be observed.                                     *)
(***************************************************************************)
EXTENDS Naturals, Integers, Sequences, FiniteSets, TLC

VARIABLES
    \* ---- device (audio_player.ino) ----
    sdPin,        \* level of SD_PIN: "LOW" or "HIGH"
    isPlaying,    \* bool isPlaying
    currentURL,   \* String currentURL ("" when never set)
    sessions,     \* urls of the streams the Audio object currently decodes
    dpc,          \* position of the /api/play body handler ("idle" = no handler running)
    lastResp,     \* last HTTP response the device sent
    edges,        \* pin edges written by the play handler in progress
    hist,         \* the last HistLen finished device events (history)
    \* ---- server (server.js) ----
    now,          \* Date.now() when it was last read
    disk,         \* the uploads directory: file name -> what its bytes are
    up,           \* the upload requests: position, file, response
    serverUp,     \* the node process is running
    creply,       \* response of the catalog request (tracks, info, delete) answered last,
                  \* until an upload or a transcoder event is handled
    published     \* names a successful ingestion returned and no DELETE removed since (history)

dvars == <<sdPin, isPlaying, currentURL, sessions, dpc, lastResp, edges, hist>>
svars == <<now, disk, up, serverUp, creply, published>>
vars == <<dvars, svars>>

\* ------------------------------------------------------------------ bounds
HistLen == 2
MaxUploads == 2
Time0 == 10
MaxTicks == 1

\* ------------------------------------------------------------------ device
URLs == {"urlA", "urlB"}

NoResp == "none"

\* bodies of a play request that the handler rejects (lines 74-83)
BadBodies == {"malformed json", "no url"}

\* digitalWrite(SD_PIN, level): the new level and the edge it makes
Edge(old, new) ==
    IF old = "LOW" /\ new = "HIGH" THEN "rise"
    ELSE IF old = "HIGH" /\ new = "LOW" THEN "fall"
    ELSE "none"

NoEdges == [rise |-> 0, fall |-> 0]

CountEdge(e, old, new) ==
    CASE Edge(old, new) = "rise" -> [e EXCEPT !.rise = @ + 1]
      [] Edge(old, new) = "fall" -> [e EXCEPT !.fall = @ + 1]
      [] OTHER -> e

\* the event window keeps the last HistLen events
Remember(h, ev) ==
    IF Len(h) < HistLen THEN Append(h, ev) ELSE Append(Tail(h), ev)

\* what a client and a probe on the pin can observe of the device
Observed(pin, playing, url, open, resp) ==
    [pin |-> pin, playing |-> playing, url |-> url, open |-> open, resp |-> resp]

\* a finished event: its kind, its url, the pin level it started from, the pin
\* edges it made and the observable state it left
Event(kind, url, pinBefore, e, after) ==
    [ev |-> kind, url |-> url, pinBefore |-> pinBefore,
     rise |-> e.rise, fall |-> e.fall, after |-> after]

\* state after setup(): globals as initialised, SD_PIN written LOW
DeviceInit ==
    /\ sdPin = "LOW"
    /\ isPlaying = FALSE
    /\ currentURL = ""
    /\ sessions = {}
    /\ dpc = "idle"
    /\ lastResp = NoResp
    /\ edges = [pinBefore |-> "LOW", rise |-> 0, fall |-> 0]
    /\ hist = <<>>

\* PlayBadRequest that takes the url before it checks it
PlayBadRequestTakesUrl(body) ==
    /\ dpc = "idle"
    /\ currentURL' = IF body = "malformed json" THEN currentURL ELSE ""
    /\ lastResp' = IF body = "malformed json" THEN "400 Invalid JSON" ELSE "400 URL missing"
    /\ hist' = Remember(hist, Event("play_400", "", sdPin, NoEdges,
                   Observed(sdPin, isPlaying, currentURL', sessions, lastResp')))
    /\ UNCHANGED <<sdPin, isPlaying, sessions, dpc, edges, svars>>

\* /api/play with a body that is not JSON, or without url: 400, nothing else
PlayBadRequest(body) ==
    /\ dpc = "idle"
    /\ lastResp' = IF body = "malformed json" THEN "400 Invalid JSON" ELSE "400 URL missing"
    /\ hist' = Remember(hist, Event("play_400", "", sdPin, NoEdges,
                   Observed(sdPin, isPlaying, currentURL, sessions, lastResp')))
    /\ UNCHANGED <<sdPin, isPlaying, currentURL, sessions, dpc, edges, svars>>

\* PlayAccept that marks the stream as playing before it is opened
PlayAcceptMarksPlaying(url) ==
    /\ dpc = "idle"
    /\ sessions' = IF isPlaying THEN {} ELSE sessions
    /\ currentURL' = url
    /\ sdPin' = "HIGH"
    /\ isPlaying' = TRUE
    /\ edges' = [pinBefore |-> sdPin,
                 rise |-> CountEdge(NoEdges, sdPin, "HIGH").rise,
                 fall |-> CountEdge(NoEdges, sdPin, "HIGH").fall]
    /\ dpc' = "opening"
    /\ UNCHANGED <<lastResp, hist, svars>>

\* PlayAccept without the stopSong() of lines 86-89
PlayAcceptNoStop(url) ==
    /\ dpc = "idle"
    /\ sessions' = sessions
    /\ currentURL' = url
    /\ sdPin' = "HIGH"
    /\ edges' = [pinBefore |-> sdPin,
                 rise |-> CountEdge(NoEdges, sdPin, "HIGH").rise,
                 fall |-> CountEdge(NoEdges, sdPin, "HIGH").fall]
    /\ dpc' = "opening"
    /\ UNCHANGED <<isPlaying, lastResp, hist, svars>>

\* /api/play, lines 85-92: stop the previous audio, take the url, speaker on
PlayAccept(url) ==
    /\ dpc = "idle"
    /\ sessions' = IF isPlaying THEN {} ELSE sessions
    /\ currentURL' = url
    /\ sdPin' = "HIGH"
    /\ edges' = [pinBefore |-> sdPin,
                 rise |-> CountEdge(NoEdges, sdPin, "HIGH").rise,
                 fall |-> CountEdge(NoEdges, sdPin, "HIGH").fall]
    /\ dpc' = "opening"
    /\ UNCHANGED <<isPlaying, lastResp, hist, svars>>

\* /api/play, line 93: audio.connecttohost(currentURL) succeeds or fails
PlayOpen(ok) ==
    /\ dpc = "opening"
    /\ sessions' = IF ok THEN sessions \cup {currentURL} ELSE sessions
    /\ dpc' = IF ok THEN "opened" ELSE "failed"
    /\ UNCHANGED <<sdPin, isPlaying, currentURL, lastResp, edges, hist, svars>>

\* /api/play, lines 95-98: the open succeeded
PlaySucceed ==
    /\ dpc = "opened"
    /\ isPlaying' = TRUE
    /\ lastResp' = "200 playing"
    /\ hist' = Remember(hist, Event("play_ok", currentURL, edges.pinBefore, edges,
                   Observed(sdPin, isPlaying', currentURL, sessions, lastResp')))
    /\ dpc' = "idle"
    /\ UNCHANGED <<sdPin, currentURL, sessions, edges, svars>>

\* PlayFail without the digitalWrite(SD_PIN, LOW) of line 100
PlayFailAmpLeftOn ==
    /\ dpc = "failed"
    /\ sdPin' = sdPin
    /\ lastResp' = "500 Stream failed"
    /\ hist' = Remember(hist, Event("play_fail", currentURL, edges.pinBefore, edges,
                   Observed(sdPin', isPlaying, currentURL, sessions, lastResp')))
    /\ dpc' = "idle"
    /\ UNCHANGED <<isPlaying, currentURL, sessions, edges, svars>>

\* /api/play, lines 99-102: the open failed
PlayFail ==
    /\ dpc = "failed"
    /\ sdPin' = "LOW"
    /\ lastResp' = "500 Stream failed"
    /\ hist' = Remember(hist, Event("play_fail", currentURL, edges.pinBefore,
                   CountEdge(edges, sdPin, "LOW"),
                   Observed(sdPin', isPlaying, currentURL, sessions, lastResp')))
    /\ dpc' = "idle"
    /\ UNCHANGED <<isPlaying, currentURL, sessions, edges, svars>>

\* StopHandler that stops only when it believes a stream is playing
StopHandlerOnlyIfPlaying ==
    /\ dpc = "idle"
    /\ sessions' = IF isPlaying THEN {} ELSE sessions
    /\ sdPin' = IF isPlaying THEN "LOW" ELSE sdPin
    /\ isPlaying' = FALSE
    /\ lastResp' = IF isPlaying THEN "200 stopped" ELSE "200 idle"
    /\ hist' = Remember(hist, Event("stop", "", sdPin, CountEdge(NoEdges, sdPin, sdPin'),
                   Observed(sdPin', isPlaying', currentURL, sessions', lastResp')))
    /\ UNCHANGED <<currentURL, dpc, edges, svars>>

\* /api/stop
StopHandler ==
    /\ dpc = "idle"
    /\ sessions' = {}
    /\ sdPin' = "LOW"
    /\ isPlaying' = FALSE
    /\ lastResp' = "200 stopped"
    /\ hist' = Remember(hist, Event("stop", "", sdPin, CountEdge(NoEdges, sdPin, "LOW"),
                   Observed(sdPin', isPlaying', currentURL, sessions', lastResp')))
    /\ UNCHANGED <<currentURL, dpc, edges, svars>>

\* audio_eof_mp3: the decoder reached the end of the stream it plays
AudioEof ==
    /\ dpc = "idle"
    /\ sessions # {}
    /\ sessions' = {}
    /\ sdPin' = "LOW"
    /\ isPlaying' = FALSE
    /\ hist' = Remember(hist, Event("eof", "", sdPin, CountEdge(NoEdges, sdPin, "LOW"),
                   Observed(sdPin', isPlaying', currentURL, sessions', lastResp)))
    /\ UNCHANGED <<currentURL, dpc, lastResp, edges, svars>>

DeviceNext ==
    \/ \E b \in BadBodies : PlayBadRequest(b)
    \/ \E u \in URLs : PlayAccept(u)
    \/ \E ok \in BOOLEAN : PlayOpen(ok)
    \/ PlaySucceed
    \/ PlayFail
    \/ StopHandler
    \/ AudioEof

\* ------------------------------------------------------------------ server
\* File names are sequences of characters, so that the name arithmetic of
\* server.js (path.parse, path.extname, template strings) is computed.
\* Two different files with one base name: their temporary names differ by
\* the clock alone. (DottedNames has the names with other base names.)
OrigNames == { <<"a", ".", "w", "a", "v">>,
               <<"a", ".", "m", "p", "3">> }

\* original names whose base name holds a dot, an audio extension or its start
DottedNames == { <<"x", ".", "m", "p", "3", ".", "w", "a", "v">>,
                 <<".", "m", "p", "3">>,
                 <<"s", ".", "m", "p", ".", "w", "a", "v">>,
                 <<"n", ".">> }

\* declared content types of the uploaded part: <<type, subtype>>
MimeTypes == { <<"audio", "wav">>, <<"application", "octet-stream">>, <<"text", "plain">> }

DigitChar(d) == <<"0", "1", "2", "3", "4", "5", "6", "7", "8", "9">>[d + 1]

\* `${n}` of a non-negative integer: its decimal digits
RECURSIVE Digits(_)
Digits(n) == IF n < 10 THEN <<DigitChar(n)>> ELSE Digits(n \div 10) \o <<DigitChar(n % 10)>>

\* index of the last "." of s, 0 when there is none
LastDot(s) ==
    LET dots == {i \in 1..Len(s) : s[i] = "."}
    IN  IF dots = {} THEN 0 ELSE CHOOSE i \in dots : \A j \in dots : j <= i

\* path.extname(s): from the last "." on, "" when there is none or it leads the name
ExtName(s) == IF LastDot(s) <= 1 THEN <<>> ELSE SubSeq(s, LastDot(s), Len(s))

\* path.parse(s).name: the name without its extension
BaseName(s) == SubSeq(s, 1, Len(s) - Len(ExtName(s)))

\* String.prototype.toLowerCase on the characters file names are made of
LowerChar(c) ==
    CASE c = "A" -> "a" [] c = "M" -> "m" [] c = "P" -> "p" [] c = "W" -> "w"
      [] c = "V" -> "v" [] c = "F" -> "f" [] c = "L" -> "l" [] c = "C" -> "c"
      [] OTHER -> c

ToLowerCase(s) == [i \in 1..Len(s) |-> LowerChar(s[i])]

AudioExts == { <<".", "m", "p", "3">>, <<".", "w", "a", "v">>,
               <<".", "m", "4", "a">>, <<".", "f", "l", "a", "c">> }

\* the filter of GET /api/tracks
IsAudioFile(file) == ToLowerCase(ExtName(file)) \in AudioExts

\* TempName with the timestamp put before the whole original name
TempNameStampFirst(orig, t) == Digits(t) \o orig

\* multer's filename callback: `${baseName}${Date.now()}`
TempName(orig, t) == BaseName(orig) \o Digits(t)

\* `${req.file.filename}.mp3`
OutName(filename) == filename \o <<".", "m", "p", "3">>

\* multer's fileFilter
FileAccepted(mime) ==
    mime[1] = "audio" \/ mime = <<"application", "octet-stream">>

Times == Time0 .. (Time0 + MaxTicks)
Uploads == 1 .. MaxUploads

Ghost == <<"x", ".", "m", "p", "3">>

Exists(d, name) == name \in DOMAIN d

\* fs.unlinkSync
Unlink(d, name) == [n \in (DOMAIN d) \ {name} |-> d[n]]

\* a file created or truncated and written anew
WriteFile(d, name, bytes) == [n \in (DOMAIN d) \cup {name} |-> IF n = name THEN bytes ELSE d[n]]

NewUpload == [pc |-> "new", filename |-> <<>>, resp |-> NoResp, left |-> {}]

\* the files of ingestion r that are on disk d
FilesOf(d, filename) == {n \in {filename, OutName(filename)} : Exists(d, n)}

\* another transcoder is writing the same output path
OtherWriter(r) ==
    \E q \in Uploads : q # r /\ up[q].pc = "writing" /\ up[q].filename = up[r].filename

\* the request slots are numbered in the order the requests arrive
NextToArrive(r) == up[r].pc = "new" /\ \A q \in Uploads : q < r => up[q].pc # "new"

\* the names a client asks for: every file that exists, and one that does not
\* (a request for an absent name reads and changes nothing, whatever the name)
AskedNames == (DOMAIN disk) \cup {Ghost}

\* no catalog response is on its way
NoReply == [op |-> "none"]

ServerInit ==
    /\ now = Time0
    /\ disk = << >>
    /\ up = [r \in Uploads |-> NewUpload]
    /\ serverUp = TRUE
    /\ creply = NoReply
    /\ published = {}

\* POST /api/upload without a part named audioFile: 400 (lines 77-79)
UploadNoFile(r) ==
    /\ serverUp
    /\ NextToArrive(r)
    /\ up' = [up EXCEPT ![r].pc = "done", ![r].resp = "400 No file uploaded"]
    /\ creply' = NoReply
    /\ UNCHANGED <<now, disk, serverUp, published, dvars>>

\* UploadRejected with the part stored before its type is looked at
UploadRejectedAfterStore(r, mime) ==
    /\ serverUp
    /\ NextToArrive(r)
    /\ ~FileAccepted(mime)
    /\ disk' = WriteFile(disk, TempName(<<"a", ".", "w", "a", "v">>, now), "raw")
    /\ up' = [up EXCEPT ![r].pc = "done", ![r].resp = "500 Only audio files are allowed!"]
    /\ creply' = NoReply
    /\ UNCHANGED <<now, serverUp, published, dvars>>

\* POST /api/upload whose part the fileFilter refuses: multer passes the Error
\* to the error middleware, which answers 500 with its message (lines 35-43, 182-189)
UploadRejected(r, mime) ==
    /\ serverUp
    /\ NextToArrive(r)
    /\ ~FileAccepted(mime)
    /\ up' = [up EXCEPT ![r].pc = "done", ![r].resp = "500 Only audio files are allowed!"]
    /\ creply' = NoReply
    /\ UNCHANGED <<now, disk, serverUp, published, dvars>>

\* POST /api/upload of an accepted part: multer stores the raw bytes under the
\* temporary name, then the handler starts the transcoder (lines 26-30, 82-128)
\* t is the clock when the filename callback reads it: not before its last reading
UploadStart(r, orig, mime, t) ==
    /\ serverUp
    /\ NextToArrive(r)
    /\ FileAccepted(mime)
    /\ t >= now
    /\ now' = t
    /\ disk' = WriteFile(disk, TempName(orig, t), "raw")
    /\ up' = [up EXCEPT ![r].pc = "started", ![r].filename = TempName(orig, t)]
    /\ creply' = NoReply
    /\ UNCHANGED <<serverUp, published, dvars>>

\* POST /api/upload of an accepted part larger than limits.fileSize: multer
\* stops storing it, removes the file it was writing under the temporary name
\* and passes LIMIT_FILE_SIZE to the error middleware: 400 (lines 45-47, 183-186)
UploadTooLarge(r, orig, mime, t) ==
    /\ serverUp
    /\ NextToArrive(r)
    /\ FileAccepted(mime)
    /\ t >= now
    /\ now' = t
    /\ disk' = Unlink(WriteFile(disk, TempName(orig, t), "raw"), TempName(orig, t))
    /\ up' = [up EXCEPT ![r].pc = "done", ![r].resp = "400 File too large"]
    /\ creply' = NoReply
    /\ UNCHANGED <<serverUp, published, dvars>>

\* ffmpeg opens its input and creates (or truncates, -y) the output file
FfmpegWrite(r) ==
    /\ serverUp
    /\ up[r].pc = "started"
    /\ Exists(disk, up[r].filename)
    /\ disk' = WriteFile(disk, OutName(up[r].filename),
                         IF OtherWriter(r) THEN "garbled" ELSE "partial")
    /\ up' = [up EXCEPT ![r].pc = "writing"]
    /\ creply' = NoReply
    /\ UNCHANGED <<now, serverUp, published, dvars>>

\* what the end of a transcode leaves at the output path
Finished(d, out) ==
    IF Exists(d, out) /\ d[out] = "partial" THEN [d EXCEPT ![out] = "full"] ELSE d

\* TranscodeEnd without the fs.unlinkSync(inputPath) of line 110
TranscodeEndKeepsInput(r) ==
    LET input == up[r].filename
        out == OutName(input)
        d1 == Finished(disk, out)
    IN  /\ serverUp
        /\ up[r].pc = "writing"
        /\ IF ~Exists(d1, out)
           THEN /\ disk' = d1
                /\ up' = [up EXCEPT ![r].pc = "threw"]
                /\ serverUp' = FALSE
                /\ UNCHANGED published
           ELSE /\ disk' = d1
                /\ up' = [up EXCEPT ![r].pc = "done", ![r].resp = "200",
                                    ![r].left = FilesOf(disk', input)]
                /\ published' = published \cup {out}
                /\ UNCHANGED serverUp
        /\ creply' = NoReply
        /\ UNCHANGED <<now, dvars>>

\* ffmpeg exits successfully and the 'end' callback runs (lines 95-121)
TranscodeEnd(r) ==
    LET input == up[r].filename
        out == OutName(input)
        d1 == Finished(disk, out)
    IN  /\ serverUp
        /\ up[r].pc = "writing"
        /\ IF ~Exists(d1, out) \/ ~Exists(d1, input)
           THEN \* fs.statSync or fs.unlinkSync throws inside the event callback
                /\ disk' = d1
                /\ up' = [up EXCEPT ![r].pc = "threw"]
                /\ serverUp' = FALSE
                /\ UNCHANGED published
           ELSE /\ disk' = Unlink(d1, input)
                /\ up' = [up EXCEPT ![r].pc = "done", ![r].resp = "200",
                                    ![r].left = FilesOf(disk', input)]
                /\ published' = published \cup {out}
                /\ UNCHANGED serverUp
        /\ creply' = NoReply
        /\ UNCHANGED <<now, dvars>>

\* ffmpeg fails, before or after it created the output, and the 'error'
\* callback runs (lines 122-127)
TranscodeError(r) ==
    LET input == up[r].filename
    IN  /\ serverUp
        /\ up[r].pc \in {"started", "writing"}
        /\ disk' = IF Exists(disk, input) THEN Unlink(disk, input) ELSE disk
        /\ up' = [up EXCEPT ![r].pc = "done", ![r].resp = "500 Compression failed",
                            ![r].left = FilesOf(disk', input)]
        /\ creply' = NoReply
    /\ UNCHANGED <<now, serverUp, published, dvars>>

\* fs.readdirSync(uploadsDir) filtered to the audio extensions (lines 61-65)
Listed(d) == {file \in DOMAIN d : IsAudioFile(file)}

\* GET /api/tracks (lines 59-71)
GetTracks ==
    /\ serverUp
    /\ creply' = [op |-> "tracks", status |-> 200, names |-> Listed(disk)]
    /\ UNCHANGED <<now, disk, up, serverUp, published, dvars>>

\* DeleteTrack that answers 200 without looking whether the file exists
DeleteTrackNoCheck(filename) ==
    /\ serverUp
    /\ disk' = Unlink(disk, filename)
    /\ creply' = [op |-> "delete", status |-> 200, name |-> filename]
    /\ published' = published \ {filename}
    /\ UNCHANGED <<now, up, serverUp, dvars>>

\* DELETE /api/tracks/:filename (lines 136-151)
DeleteTrack(filename) ==
    /\ serverUp
    /\ IF Exists(disk, filename)
       THEN /\ disk' = Unlink(disk, filename)
            /\ creply' = [op |-> "delete", status |-> 200, name |-> filename]
       ELSE /\ disk' = disk
            /\ creply' = [op |-> "delete", status |-> 404, name |-> filename]
    /\ published' = IF Exists(disk, filename) THEN published \ {filename} ELSE published
    /\ UNCHANGED <<now, up, serverUp, dvars>>

\* status of the info route for a name (lines 159-169)
InfoStatus(d, filename) == IF Exists(d, filename) THEN 200 ELSE 404

\* GET /api/tracks/:filename/info (lines 154-174)
GetInfo(filename) ==
    /\ serverUp
    /\ creply' = [op |-> "info", name |-> filename, status |-> InfoStatus(disk, filename)]
    /\ UNCHANGED <<now, disk, up, serverUp, published, dvars>>

ServerNext ==
    \/ \E r \in Uploads : UploadNoFile(r)
    \/ \E r \in Uploads, m \in MimeTypes : UploadRejected(r, m)
    \/ \E r \in Uploads, o \in OrigNames, m \in MimeTypes, t \in Times : UploadStart(r, o, m, t)
    \/ \E r \in Uploads, o \in OrigNames, m \in MimeTypes, t \in Times : UploadTooLarge(r, o, m, t)
    \/ \E r \in Uploads : FfmpegWrite(r)
    \/ \E r \in Uploads : TranscodeEnd(r)
    \/ \E r \in Uploads : TranscodeError(r)
    \/ GetTracks
    \/ \E n \in AskedNames : DeleteTrack(n)
    \/ \E n \in AskedNames : GetInfo(n)

\* ingestions of files with dotted names, and listings
NamesNext ==
    \/ \E r \in Uploads, o \in DottedNames, m \in MimeTypes, t \in Times : UploadStart(r, o, m, t)
    \/ \E r \in Uploads : FfmpegWrite(r)
    \/ \E r \in Uploads : TranscodeEnd(r)
    \/ \E r \in Uploads : TranscodeError(r)
    \/ GetTracks

\* ------------------------------------------------------------------ specifications
Init == DeviceInit /\ ServerInit

\* the device alone, the server alone: the two programs share no state
DeviceSpec == Init /\ [][DeviceNext]_vars
ServerSpec == Init /\ [][ServerNext]_vars

\* the server with uploads of dotted original names
NamesSpec == Init /\ [][NamesNext]_vars

\* ------------------------------------------------------------------ helpers of the claims
InFlight(r) == up[r].pc \in {"started", "writing"}

\* ------------------------------------------------------------------ claims
\* C1: between handlers, SD_PIN is HIGH if and only if isPlaying is true.
C1Claim == dpc = "idle" => (sdPin = "HIGH" <=> isPlaying)

\* C2: an ingestion that failed (500 after a transcoder error) left none of
\* its files on disk when it answered: neither the output nor the raw input.
C2Claim == \A r \in Uploads : up[r].resp = "500 Compression failed" => up[r].left = {}

\* C3: an ingestion that answered 200 left exactly one of its files on disk
\* when it answered: the output named in compressedFile, and not the raw input.
C3Theorem == \A r \in Uploads : up[r].resp = "200" => up[r].left = {OutName(up[r].filename)}

C3Witness == \E r \in Uploads : up[r].resp = "200" /\ up[r].left # {}

\* C4: every name a GET /api/tracks returns is a file whose transcode has
\* completed and whose bytes are fully written.
C4Claim == [][GetTracks => \A n \in creply'.names : disk[n] = "full"]_vars

\* C5: a play request whose open failed ends, whatever state it came from,
\* with the pin LOW, isPlaying false and no stream open when it reports 500.
C5Claim ==
    \A i \in 1..Len(hist) :
        hist[i].ev = "play_fail" =>
            /\ hist[i].after.resp = "500 Stream failed"
            /\ hist[i].after.pin = "LOW"
            /\ hist[i].after.playing = FALSE
            /\ hist[i].after.open = {}

\* C6: a successful play that follows a successful play with no end-of-stream
\* or stop between them leaves exactly the new stream open (currentURL is its
\* url, isPlaying true) and makes no pin edge, so that from a LOW pin the two
\* requests raise the pin exactly once; and at no point are two streams open.
C6Theorem ==
    /\ Cardinality(sessions) <= 1
    /\ \A i \in 1..(Len(hist) - 1) :
        (hist[i].ev = "play_ok" /\ hist[i + 1].ev = "play_ok") =>
            /\ hist[i + 1].after =
                 Observed("HIGH", TRUE, hist[i + 1].url, {hist[i + 1].url}, "200 playing")
            /\ hist[i + 1].rise = 0
            /\ hist[i + 1].fall = 0
            /\ (hist[i].pinBefore = "LOW" => hist[i].rise + hist[i + 1].rise = 1)
            /\ hist[i].fall = 0

C6Witness ==
    /\ dpc = "idle"
    /\ Len(hist) = 2
    /\ hist[1].ev = "play_ok" /\ hist[1].url = "urlA" /\ hist[1].pinBefore = "LOW"
    /\ hist[2].ev = "play_ok" /\ hist[2].url = "urlB"
    /\ currentURL = "urlB" /\ isPlaying /\ sessions = {"urlB"}

\* C7: two ingestions in flight at the same time have different temporary
\* input paths and different output paths, and neither's input is the
\* other's output.
C7Claim ==
    \A r, q \in Uploads :
        (r # q /\ InFlight(r) /\ InFlight(q)) =>
            {up[r].filename, OutName(up[r].filename)}
                \cap {up[q].filename, OutName(up[q].filename)} = {}

\* C8: an info request answers 200 if and only if an ingestion that publishes
\* the name has completed successfully and no later DELETE removed it.
C8Claim ==
    [][\A n \in AskedNames : GetInfo(n) => (creply'.status = 200 <=> n \in published)]_vars

\* C9: the pin is HIGH only while a play request is in progress or a stream is
\* active; a failed open, a stop and an end of stream each leave the pin LOW,
\* and the pin is LOW whenever no request is in progress and nothing plays.
C9Theorem ==
    /\ sdPin = "HIGH" => (dpc # "idle" \/ (isPlaying /\ sessions # {}))
    /\ (dpc = "idle" /\ (~isPlaying \/ sessions = {})) => sdPin = "LOW"
    /\ \A i \in 1..Len(hist) :
        hist[i].ev \in {"play_fail", "stop", "eof"} => hist[i].after.pin = "LOW"

C9Witness ==
    /\ dpc = "idle" /\ Len(hist) = 2
    /\ hist[1].ev = "play_ok"
    /\ hist[2].ev = "play_fail" /\ hist[2].pinBefore = "HIGH"
    /\ sdPin = "LOW"

\* C10: a stop answers 200 stopped and leaves isPlaying false, the pin LOW and
\* no stream open, from an idle and from an active state; a second stop right
\* after it leaves the same observable state and gives the same response.
C10Theorem ==
    \A i \in 1..Len(hist) :
        hist[i].ev = "stop" =>
            /\ hist[i].after.resp = "200 stopped"
            /\ hist[i].after.pin = "LOW"
            /\ hist[i].after.playing = FALSE
            /\ hist[i].after.open = {}
            /\ (i > 1 /\ hist[i - 1].ev = "stop") =>
                   (hist[i].after = hist[i - 1].after /\ hist[i].rise = 0 /\ hist[i].fall = 0)

C10Witness ==
    /\ Len(hist) = 2
    /\ hist[1].ev = "stop" /\ hist[1].pinBefore = "HIGH"
    /\ hist[2].ev = "stop"

\* status code of an upload response
StatusOf(resp) ==
    CASE resp = "200" -> 200
      [] resp \in {"400 No file uploaded", "400 File too large"} -> 400
      [] resp \in {"500 Only audio files are allowed!", "500 Compression failed"} -> 500
      [] OTHER -> 0

\* the responses of the requests that validation turns away
RejectedResps == {"400 No file uploaded", "500 Only audio files are allowed!"}

\* C11: the step that answers an upload turned away by validation (no file, or
\* a content type not accepted) changes nothing in the uploads directory and
\* starts no transcoder: the request has no temporary name and is finished.
C11Theorem ==
    [][\A r \in Uploads :
        (up[r].resp = NoResp /\ up'[r].resp \in RejectedResps) =>
            (disk' = disk /\ up'[r].filename = <<>> /\ up'[r].pc = "done")]_vars

C11Witness ==
    /\ disk # << >>
    /\ \E r \in Uploads : up[r].resp = "500 Only audio files are allowed!"

\* C12: an upload that is missing or invalid (no file, content type not
\* accepted, too large) is answered 400, and 500 is answered only to a request
\* whose transcode was started.
C12Claim ==
    \A r \in Uploads :
        /\ (up[r].pc = "done" /\ up[r].filename = <<>>) => StatusOf(up[r].resp) = 400
        /\ StatusOf(up[r].resp) = 500 => up[r].filename # <<>>

C14Theorem ==
    [][creply'.op = "delete" =>
        LET n == creply'.name
        IN  IF n \in DOMAIN disk
            THEN /\ creply'.status = 200
                 /\ DOMAIN disk' = (DOMAIN disk) \ {n}
                 /\ \A m \in DOMAIN disk' : disk'[m] = disk[m]
                 /\ n \notin Listed(disk')
                 /\ InfoStatus(disk', n) = 404
            ELSE /\ creply'.status = 404
                 /\ disk' = disk]_vars

C14Witness ==
    /\ creply.op = "delete" /\ creply.status = 200
    /\ IsAudioFile(creply.name)
    /\ disk # << >>

\* C15: a play request whose open fails, made when nothing was playing (after
\* boot, a stop, an end of stream), leaves the pin LOW, isPlaying false and no
\* stream open once it is answered.
C15Theorem ==
    \A i \in 1..Len(hist) :
        (/\ hist[i].ev = "play_fail"
         /\ \/ (i = 1 /\ Len(hist) < HistLen)
            \/ (i > 1 /\ hist[i - 1].after.playing = FALSE)) =>
            /\ hist[i].after.resp = "500 Stream failed"
            /\ hist[i].after.pin = "LOW"
            /\ hist[i].after.playing = FALSE
            /\ hist[i].after.open = {}

C15Witness ==
    /\ dpc = "idle" /\ Len(hist) = 2
    /\ hist[1].ev \in {"stop", "eof"}
    /\ hist[2].ev = "play_fail"
    /\ sdPin = "LOW" /\ ~isPlaying

\* an upload request that stored its raw input (it has a temporary name)
Stored(r) == up[r].filename # <<>>

\* C16: when a request that stored a raw input has ended (response sent, or
\* exception thrown in the completion callback), its raw input is not on disk.
C16Claim ==
    \A r \in Uploads :
        /\ (Stored(r) /\ up[r].pc = "done") => up[r].filename \notin up[r].left
        /\ up[r].pc = "threw" => ~Exists(disk, up[r].filename)

\* C17: a DELETE or an info request handled while an ingestion is in flight
\* neither removes a file of that ingestion nor finds its raw input (404).
C17Claim ==
    [][\A n \in AskedNames : (DeleteTrack(n) \/ GetInfo(n)) =>
        \A r \in Uploads : InFlight(r) =>
            /\ FilesOf(disk', up[r].filename) = FilesOf(disk, up[r].filename)
            /\ n = up[r].filename => creply'.status = 404]_vars

\* C18: once the transcoder of a request has had its terminal event, the
\* request has its response: 200 or 500 Compression failed, never none.
C18Claim ==
    \A r \in Uploads :
        (Stored(r) /\ ~InFlight(r)) => up[r].resp \in {"200", "500 Compression failed"}

\* C19: a GET /api/tracks never returns the raw temporary input of an
\* ingestion, whatever the original name: every name it returns is the
\* <tempname>.mp3 of an ingestion, and no temporary name passes its filter.
C19Theorem ==
    [][GetTracks =>
        /\ \A n \in creply'.names :
             /\ disk[n] # "raw"
             /\ \E r \in Uploads : Stored(r) /\ n = OutName(up[r].filename)
        /\ \A r \in Uploads : Stored(r) => up[r].filename \notin creply'.names]_vars

C19Witness ==
    /\ creply.op = "tracks"
    /\ creply.names # {}
    /\ \E r \in Uploads :
        /\ InFlight(r)
        /\ Exists(disk, up[r].filename)
        /\ disk[up[r].filename] = "raw"
        /\ up[r].filename \in {TempName(<<"s", ".", "m", "p", ".", "w", "a", "v">>, t) : t \in Times}

====
